---- MODULE Spec2Model ----
(***************************************************************************)
(* The action / validation pipeline of holochain (src/action.go): the      *)
(* initiating side (commit, mod, del: doCommit on the agent's chain, then  *)
(* the DHT sends) and the receiving side (PUT, MOD, DEL, LINK, GETLINK     *)
(* receive handlers with their validation pull from the source peer).     *)
(* The chain and the DHT store are used by action.go but are not part of   *)
(* the sources at hand; they are modelled from the specification.          *)
(***************************************************************************)
EXTENDS Integers, Sequences, FiniteSets, TLC

VARIABLES
    chain,   \* chain[p]: the local chain of peer p, a sequence of headers
    store,   \* store[p][h]: the DHT record peer p holds for hash h
    links,   \* links[p][k]: the status of link k = <<base, link, tag>> on p
    net,     \* action-protocol messages sent and not yet handled
    calls,   \* calls[c]: the doCommit of caller c in progress on the agent's chain
    hands,   \* the receive handlers in progress: message, position, pulled record
    last,    \* what the last completed Do or Receive returned
    boot     \* the run of checkBSResponses in progress and its goroutines

vars == <<chain, store, links, net, calls, hands, last, boot>>

----------------------------------------------------------------------------
(* Bounds of the model.                                                    *)

\* longest chain an agent builds
MaxChain == 3
\* most messages in flight at once
MaxNet == 2

Peers == {"A", "B"}
\* the peer whose agent calls commit, mod and del
Agent == "A"
\* a peer outside the DNA's honest software: it sends PUT requests by hand
\* and answers a validation pull with whatever it likes (spec 8, scenario 4)
Handcrafted == "X"

----------------------------------------------------------------------------
(* Entries.  An entry's content is a string, an encoded DelEntry or the    *)
(* JSON of a LinksEntry.                                                   *)

AddAction == "add"
ModAction == "mod"
DelAction == "del"

Str(s) == [kind |-> "str", str |-> s, Hash |-> 0, Links |-> <<>>]
\* ByteEncoder(DelEntry{Hash, Message})
DelEntry(h, m) == [kind |-> "del", str |-> m, Hash |-> h, Links |-> <<>>]
Link(b, l, t, act) == [Base |-> b, Link |-> l, Tag |-> t, LinkAction |-> act]
\* the JSON of LinksEntry{Links}
LinksEntry(ls) == [kind |-> "links", str |-> "", Hash |-> 0, Links |-> ls]

\* The contents the model draws from; the hash of a content is its place
\* here (content addressing without collisions).
Universe ==
    << Str("a"),                                                   \* 1
       Str("b"),                                                   \* 2
       Str("bad"),                                                 \* 3
       DelEntry(1, "oops"),                                        \* 4
       LinksEntry(<<Link(1, 2, "t", AddAction)>>),                 \* 5
       LinksEntry(<<Link(1, 2, "t", DelAction)>>),                 \* 6
       LinksEntry(<<Link(1, 2, "t", AddAction),
                    Link(2, 1, "t", AddAction),
                    Link(1, 2, "u", AddAction)>>),                 \* 7
       LinksEntry(<<>>) >>                                         \* 8

Hashes == DOMAIN Universe
NullHash == 0

\* entry.Sum(hashSpec)
Sum(c) == CHOOSE i \in Hashes : Universe[i] = c
\* NewHash(string): a well-formed hash string decodes, anything else fails
NewHashOk(b) == b \in Hashes

----------------------------------------------------------------------------
(* The DNA: entry definitions by entry-type name.                          *)

DataFormatLinks == "links"
DataFormatString == "string"
Public == "public"
Private == "private"

EntryDefs ==
    [ post   |-> [DataFormat |-> DataFormatString, Sharing |-> Public,  validator |-> FALSE],
      note   |-> [DataFormat |-> DataFormatString, Sharing |-> Private, validator |-> FALSE],
      rating |-> [DataFormat |-> DataFormatLinks,  Sharing |-> Public,  validator |-> FALSE] ]

DNAEntryType == "%dna"
KeyEntryType == "%key"
AgentEntryType == "%agent"
SysEntryTypes == {DNAEntryType, KeyEntryType, AgentEntryType}

\* h.GetEntryDef(entryType): err is nil exactly for a type of the DNA
GetEntryDefOk(t) == t \in DOMAIN EntryDefs

----------------------------------------------------------------------------
(* The local chain (modelled from the specification, 3 and 4.2).           *)

NoChange == [Action |-> "", Hash |-> NullHash]
NullHeaderHash == <<>>

\* the hash of a header over its canonical encoding
HeaderSum(hd) ==
    <<hd.Type, hd.EntryLink, hd.HeaderLink, hd.Change.Action, hd.Change.Hash>>

TopHash(ch) == IF Len(ch) = 0 THEN NullHeaderHash ELSE HeaderSum(ch[Len(ch)])

\* chain.PrepareHeader: the header that would extend ch, and its index
PrepareHeader(ch, entryType, entry, change) ==
    LET header == [Type |-> entryType, EntryLink |-> Sum(entry),
                   HeaderLink |-> TopHash(ch), Change |-> change]
    IN  [l |-> Len(ch), hash |-> HeaderSum(header), header |-> header]

\* chain.addEntry: the index must be the chain's length and the header hash
\* must match a recomputation; a header hash already present is refused
addEntryErr(ch, l, hash, header) ==
    IF l # Len(ch) THEN "ErrIndexMismatch"
    ELSE IF hash # HeaderSum(header) THEN "ErrHeaderHashMismatch"
    ELSE IF \E i \in 1..Len(ch) : HeaderSum(ch[i]) = hash THEN "ErrDuplicateHeader"
    ELSE ""

addEntry(ch, l, hash, header) ==
    IF addEntryErr(ch, l, hash, header) = "" THEN Append(ch, header) ELSE ch

HasEntry(ch, h) == \E i \in 1..Len(ch) : ch[i].EntryLink = h

\* chain.GetEntryHeader(hash): the header of the entry, ErrHashNotFound if none
GetEntryHeader(ch, h) ==
    ch[CHOOSE i \in 1..Len(ch) :
          /\ ch[i].EntryLink = h
          /\ \A j \in 1..Len(ch) : ch[j].EntryLink = h => j <= i]

----------------------------------------------------------------------------
(* Actions as values: name, entry type, entry and, for mod, the replaced   *)
(* hash.  For del the entry is the DelEntry; for link it is the LinksEntry *)
(* whose Links the action carries.                                         *)

NilEntry == [kind |-> "nil", str |-> "", Hash |-> NullHash, Links |-> <<>>]

Action(name, entryType, entry, replaces) ==
    [name |-> name, entryType |-> entryType, entry |-> entry, replaces |-> replaces]

NewCommitAction(entryType, entry) == Action("commit", entryType, entry, NullHash)
NewPutAction(entryType, entry) == Action("put", entryType, entry, NullHash)
NewModAction(entryType, entry, replaces) == Action("mod", entryType, entry, replaces)
NewDelAction(entryType, delEntry) == Action("del", entryType, delEntry, NullHash)
NewLinkAction(entryType, le) == Action("link", entryType, le, NullHash)

\* a.Entry(): what the action commits
EntryOf(a) == a.entry

\* the schema validator of an entry definition (none of this DNA's types has
\* one; a validator accepts string contents)
SchemaValidate(d, entry) == IF entry.kind = "str" THEN "" ELSE "ErrSchema"

\* json.Unmarshal of an entry's content into a LinksEntry
UnmarshalLinksOk(entry) == entry.kind = "links"
\* ByteDecoder of an entry's content into a DelEntry
ByteDecoderOk(entry) == entry.kind = "del"

sysValidateEntry(d, entry) ==
    IF entry = NilEntry THEN "nil entry invalid"
    ELSE IF d.validator THEN SchemaValidate(d, entry)
    ELSE IF d.DataFormat = DataFormatLinks THEN
        IF ~UnmarshalLinksOk(entry) THEN "invalid links entry, invalid json"
        ELSE IF Len(entry.Links) = 0 THEN "invalid links entry: you must specify at least one link"
        ELSE IF \E i \in 1..Len(entry.Links) : ~NewHashOk(entry.Links[i].Base)
             THEN "invalid links entry: Base"
        ELSE IF \E i \in 1..Len(entry.Links) : ~NewHashOk(entry.Links[i].Link)
             THEN "invalid links entry: Link"
        ELSE ""
    ELSE ""

ErrHashNotFound == "hash not found"
ErrEntryTypeMismatch == "entry type mismatch"
ValidationFailedErr == "Validation Failed"

ActionCommit_SysValidation(ch, a, d) == sysValidateEntry(d, a.entry)

ActionPut_SysValidation(ch, a, d) == sysValidateEntry(d, a.entry)

\* the replaced entry's header is looked up in the chain of the node that
\* runs the validation
\* a system validation of mod that does not compare the types
ModAnyType(ch, a, d) ==
    IF d.DataFormat = DataFormatLinks THEN "Can't mod Links entry"
    ELSE IF ~HasEntry(ch, a.replaces) THEN ErrHashNotFound
    ELSE sysValidateEntry(d, a.entry)

ActionMod_SysValidation(ch, a, d) ==
    IF d.DataFormat = DataFormatLinks THEN "Can't mod Links entry"
    ELSE IF ~HasEntry(ch, a.replaces) THEN ErrHashNotFound
    ELSE IF GetEntryHeader(ch, a.replaces).Type # a.entryType THEN ErrEntryTypeMismatch
    ELSE sysValidateEntry(d, a.entry)

ActionDel_SysValidation(ch, a, d) ==
    IF d.DataFormat = DataFormatLinks THEN "Can't del Links entry"
    ELSE IF ~HasEntry(ch, a.entry.Hash) THEN ErrHashNotFound
    ELSE IF GetEntryHeader(ch, a.entry.Hash).Type # a.entryType THEN ErrEntryTypeMismatch
    ELSE ""

ActionLink_SysValidation(ch, a, d) == ""

SysValidation(ch, a, d) ==
    CASE a.name = "commit" -> ActionCommit_SysValidation(ch, a, d)
      [] a.name = "put"    -> ActionPut_SysValidation(ch, a, d)
      [] a.name = "mod"    -> ActionMod_SysValidation(ch, a, d)
      [] a.name = "del"    -> ActionDel_SysValidation(ch, a, d)
      [] OTHER             -> ActionLink_SysValidation(ch, a, d)

\* The application's validation (the ribosome's ValidateAction): the same
\* DNA on every node, here the validator of scenario 4, which rejects
\* contents that start with "bad".
RibosomeValidateAction(a, d) ==
    IF a.entry.str = "bad" THEN ValidationFailedErr ELSE ""

\* MakeValidationPackage fails on a package with sections missing
PkgNone == "nil"
PkgOk == "ok"
PkgBroken == "broken"
MakeValidationPackageOk(pkg) == pkg # PkgBroken

\* a run that goes on to the application's validation after the system
\* validation failed
RunPastSysValidation(ch, a, entryType, pkg) ==
    IF entryType \in SysEntryTypes THEN [steps |-> <<>>, err |-> ""]
    ELSE IF ~GetEntryDefOk(entryType)
    THEN [steps |-> <<"GetEntryDef">>, err |-> "no definition for entry type"]
    ELSE IF ~MakeValidationPackageOk(pkg)
    THEN [steps |-> <<"GetEntryDef", "MakeValidationPackage">>,
          err |-> "bad validation package"]
    ELSE [steps |-> <<"GetEntryDef", "MakeValidationPackage", "SysValidation",
                      "ValidateAction">>,
          err |-> RibosomeValidateAction(a, EntryDefs[entryType])]

\* Holochain.ValidateAction on the node whose chain is ch: the steps it
\* runs for an application-defined entry type and the error it returns
\* ("" is nil); a system entry type is accepted without a step
ValidateActionRun(ch, a, entryType, pkg) ==
    IF entryType \in SysEntryTypes THEN [steps |-> <<>>, err |-> ""]
    ELSE IF ~GetEntryDefOk(entryType)
    THEN [steps |-> <<"GetEntryDef">>, err |-> "no definition for entry type"]
    ELSE IF ~MakeValidationPackageOk(pkg)
    THEN [steps |-> <<"GetEntryDef", "MakeValidationPackage">>,
          err |-> "bad validation package"]
    ELSE LET d == EntryDefs[entryType]
             sys == SysValidation(ch, a, d)
         IN  IF sys # ""
             THEN [steps |-> <<"GetEntryDef", "MakeValidationPackage", "SysValidation">>,
                   err |-> sys]
             ELSE [steps |-> <<"GetEntryDef", "MakeValidationPackage", "SysValidation",
                               "ValidateAction">>,
                   err |-> RibosomeValidateAction(a, d)]

\* the error Holochain.ValidateAction returns
ValidateAction(ch, a, entryType, pkg) == ValidateActionRun(ch, a, entryType, pkg).err

----------------------------------------------------------------------------
(* The DHT store of a peer (modelled from the specification, 3, 4.5, 4.6). *)

StatusDefault == "Default"
StatusLive == "Live"
StatusRejected == "Rejected"
StatusModified == "Modified"
StatusDeleted == "Deleted"
Absent == "absent"

NoRecord ==
    [Status |-> Absent, Type |-> "", Bytes |-> <<>>, Sources |-> {}, FollowHash |-> NullHash]

\* entry.Marshal() and GobEntry.Unmarshal
Marshal(entry) == <<"gob", entry>>
Unmarshal(bytes) == bytes[2]

\* dht.exists(key, statusMask).  With StatusDefault a record of any status
\* exists (4.5: "already exists locally (any status)"); with StatusLive only
\* a Live one does.
dht_exists(st, key, mask) ==
    IF key \notin Hashes \/ st[key].Status = Absent THEN ErrHashNotFound
    ELSE IF mask = StatusLive /\ st[key].Status # StatusLive THEN ErrHashNotFound
    ELSE ""

\* dht.put(msg, entryType, key, src, value, status): persists the record
dht_put(st, entryType, key, src, value, status) ==
    [st EXCEPT ![key] = [Status |-> status, Type |-> entryType, Bytes |-> value,
                         Sources |-> st[key].Sources \cup {src},
                         FollowHash |-> st[key].FollowHash]]

\* dht.mod(msg, key, newkey): the record becomes Modified, followed by newkey
dht_mod(st, from, key, newkey) ==
    IF st[key].Status = Absent THEN st
    ELSE [st EXCEPT ![key].Status = StatusModified,
                    ![key].FollowHash = newkey,
                    ![key].Sources = @ \cup {from}]

\* dht.del(msg, key): the record becomes Deleted
dht_del(st, from, key) ==
    IF key \notin Hashes \/ st[key].Status = Absent THEN st
    ELSE [st EXCEPT ![key].Status = StatusDeleted,
                    ![key].Sources = @ \cup {from}]

dht_delErr(st, key) ==
    IF key \notin Hashes \/ st[key].Status = Absent THEN ErrHashNotFound ELSE ""

\* The link index: one entry per (Base, Link, Tag).
LinkKeys ==
    UNION { { <<Universe[h].Links[i].Base, Universe[h].Links[i].Link, Universe[h].Links[i].Tag>> :
                i \in 1..Len(Universe[h].Links) } : h \in Hashes }

\* dht.putLink(msg, base, link, tag)
dht_putLink(lk, base, link, tag) == [lk EXCEPT ![<<base, link, tag>>] = StatusLive]

\* dht.delLink(msg, base, link, tag): a link that is there becomes Deleted
dht_delLink(lk, base, link, tag) ==
    IF lk[<<base, link, tag>>] = Absent THEN lk
    ELSE [lk EXCEPT ![<<base, link, tag>>] = StatusDeleted]

\* a status mask selects statuses; StatusDefault selects Live (6, Masks)
MaskSelects(mask, status) ==
    IF mask = StatusDefault THEN status = StatusLive ELSE status = mask

\* dht.getLink(base, tag, statusMask): the links of base under tag
dht_getLink(lk, base, tag, mask) ==
    { k[2] : k \in { x \in LinkKeys : x[1] = base /\ x[3] = tag /\ MaskSelects(mask, lk[x]) } }

\* dht.get(key, statusMask, getMask): a record the mask selects is handed
\* over; one it filters out gives the error of its status, and for a Modified
\* record the hash that follows it (6, Masks; 7, Hash modified)
dht_get(st, key, mask) ==
    LET r == st[key]
        failed(e, follow) == [data |-> <<>>, follow |-> follow, entryType |-> "",
                              sources |-> {}, err |-> e]
    IN  IF r.Status = Absent THEN failed(ErrHashNotFound, NullHash)
        ELSE IF MaskSelects(mask, r.Status)
        THEN [data |-> r.Bytes, follow |-> NullHash, entryType |-> r.Type,
              sources |-> r.Sources, err |-> ""]
        ELSE CASE r.Status = StatusModified -> failed("hash modified", r.FollowHash)
               [] r.Status = StatusDeleted  -> failed("hash deleted", NullHash)
               [] r.Status = StatusRejected -> failed("hash rejected", NullHash)
               [] OTHER                     -> failed(ErrHashNotFound, NullHash)

----------------------------------------------------------------------------
(* Messages of the action protocol and the validation pull.                *)

PUT_REQUEST == "PUT_REQUEST"
MOD_REQUEST == "MOD_REQUEST"
DEL_REQUEST == "DEL_REQUEST"
LINK_REQUEST == "LINK_REQUEST"
GET_REQUEST == "GET_REQUEST"
GETLINK_REQUEST == "GETLINK_REQUEST"

\* one record shape for the bodies PutReq{H}, ModReq{H, N}, DelReq{H, By},
\* LinkReq{Base, Links}; To is the peer dht.Send routed the message to
Msg(type, from, to, h, n, by, base, lnks) ==
    [Type |-> type, From |-> from, To |-> to, H |-> h, N |-> n, By |-> by,
     Base |-> base, Links |-> lnks]

PutReq(from, to, h) == Msg(PUT_REQUEST, from, to, h, NullHash, NullHash, NullHash, NullHash)
ModReq(from, to, h, n) == Msg(MOD_REQUEST, from, to, h, n, NullHash, NullHash, NullHash)
DelReq(from, to, h, by) == Msg(DEL_REQUEST, from, to, h, NullHash, by, NullHash, NullHash)
LinkReq(from, to, base, lnks) == Msg(LINK_REQUEST, from, to, NullHash, NullHash, NullHash, base, lnks)
NoMsg == Msg("", "", "", NullHash, NullHash, NullHash, NullHash, NullHash)

NoHeader == [Type |-> "", EntryLink |-> NullHash, HeaderLink |-> NullHeaderHash, Change |-> NoChange]

\* what a validation pull brings back: a ValidateResponse, or not (ok = FALSE:
\* a transport error, or a reply that is no ValidateResponse)
ValidateResponse(type, entry, header, pkg) ==
    [ok |-> TRUE, Type |-> type, Entry |-> entry, Header |-> header, Package |-> pkg]
NoResponse ==
    [ok |-> FALSE, Type |-> "", Entry |-> NilEntry, Header |-> NoHeader, Package |-> PkgNone]

\* a.CheckValidationRequest(def): only a link validation asks for a links entry
CheckValidationRequest(name, def) ==
    IF name = "link" /\ def.DataFormat # DataFormatLinks
    THEN "hash not of a linking entry" ELSE ""

\* Holochain.GetValidationResponse on the node whose chain is ch, for the
\* validating action called name
GetValidationResponse(ch, name, hash) ==
    IF ~HasEntry(ch, hash) THEN NoResponse
    ELSE LET hd == GetEntryHeader(ch, hash)
         IN  IF hd.Type = DNAEntryType THEN NoResponse
             ELSE IF hd.Type \in {KeyEntryType, AgentEntryType}
                  THEN ValidateResponse(hd.Type, Universe[hash], hd, PkgNone)
             ELSE IF ~GetEntryDefOk(hd.Type) THEN NoResponse
             ELSE IF CheckValidationRequest(name, EntryDefs[hd.Type]) # "" THEN NoResponse
             ELSE ValidateResponse(hd.Type, Universe[hash], hd, PkgOk)

----------------------------------------------------------------------------
(* State shapes.                                                           *)

Callers == {1, 2}

NoAction == Action("", "", NilEntry, NullHash)

\* a caller that is in no Do
IdleCall ==
    [pc |-> "idle", a |-> NoAction, l |-> 0, hash |-> NullHeaderHash, header |-> NoHeader]

\* what Do and Receive return: a hash, the text "queued", or nil
RespHash(h) == [hash |-> h, text |-> ""]
RespQueued == [hash |-> NullHash, text |-> "queued"]
RespNil == [hash |-> NullHash, text |-> ""]

Returned(op, peer, a, msg, err, response, sent) ==
    [op |-> op, peer |-> peer, a |-> a, msg |-> msg, err |-> err,
     response |-> response, sent |-> sent]

NoReturn == Returned("none", "", NoAction, NoMsg, "", RespNil, <<>>)

Init ==
    /\ chain = [p \in Peers |-> <<>>]
    /\ store = [p \in Peers |-> [h \in Hashes |-> NoRecord]]
    /\ links = [p \in Peers |-> [k \in LinkKeys |-> Absent]]
    /\ net = {}
    /\ calls = [c \in Callers |-> IdleCall]
    /\ hands = {}
    /\ boot = [pc |-> "idle"]
    /\ last = NoReturn

----------------------------------------------------------------------------
(* The initiating side: Do of commit, mod and del.                         *)

\* the StatusChange a Do hands to doCommit
ChangeOf(a) ==
    CASE a.name = "mod" -> [Action |-> ModAction, Hash |-> a.replaces]
      [] a.name = "del" -> [Action |-> DelAction, Hash |-> a.entry.Hash]
      [] OTHER          -> NoChange

\* a doCommit that goes on whatever ValidateAction returned
ValidationIgnored(ch, a) == ""

\* doCommit up to its validation: the error it returns when ValidateAction,
\* run with the node as the only source, fails ("" when it passes)
doCommitErr(ch, a) ==
    LET verr == ValidateAction(ch, a, a.entryType, PkgNone)
    IN  IF verr = ValidationFailedErr THEN "Invalid entry" ELSE verr

\* the bases of a links entry, each once, in the order the loop of
\* ActionCommit.Do meets them
RECURSIVE LinkBases(_, _)
LinkBases(ls, bases) ==
    IF ls = <<>> THEN <<>>
    ELSE IF Head(ls).Base \in bases THEN LinkBases(Tail(ls), bases)
    ELSE <<Head(ls).Base>> \o LinkBases(Tail(ls), bases \cup {Head(ls).Base})

\* a commit that puts every entry to the DHT, whatever its Sharing
SendsPutAlways(p, a, d, entryHash) ==
    IF d.DataFormat = DataFormatLinks
    THEN IF ~UnmarshalLinksOk(a.entry) THEN <<>>
         ELSE LET bs == LinkBases(a.entry.Links, {})
              IN  [i \in 1..Len(bs) |-> LinkReq(p, "", bs[i], entryHash)]
    ELSE <<PutReq(p, "", entryHash)>>

\* a commit that sends one LINK_REQUEST for every link of a links entry
SendsPerLink(p, a, d, entryHash) ==
    IF d.DataFormat = DataFormatLinks
    THEN IF ~UnmarshalLinksOk(a.entry) THEN <<>>
         ELSE [i \in 1..Len(a.entry.Links) |-> LinkReq(p, "", a.entry.Links[i].Base, entryHash)]
    ELSE IF d.Sharing = Public THEN <<PutReq(p, "", entryHash)>>
    ELSE <<>>

\* the requests Do sends after a successful doCommit, in order (To is set by
\* the routing of dht.Send)
ActionCommit_Sends(p, a, d, entryHash) ==
    IF d.DataFormat = DataFormatLinks
    THEN IF ~UnmarshalLinksOk(a.entry) THEN <<>>
         ELSE LET bs == LinkBases(a.entry.Links, {})
              IN  [i \in 1..Len(bs) |-> LinkReq(p, "", bs[i], entryHash)]
    ELSE IF d.Sharing = Public THEN <<PutReq(p, "", entryHash)>>
    ELSE <<>>

\* a mod that sends its MOD_REQUEST before its PUT_REQUEST
ModThenPut(p, a, d, entryHash) ==
    IF d.Sharing = Public
    THEN <<ModReq(p, "", a.replaces, entryHash), PutReq(p, "", entryHash)>>
    ELSE <<>>

ActionMod_Sends(p, a, d, entryHash) ==
    IF d.Sharing = Public
    THEN <<PutReq(p, "", entryHash), ModReq(p, "", a.replaces, entryHash)>>
    ELSE <<>>

ActionDel_Sends(p, a, d, entryHash) ==
    IF d.Sharing = Public THEN <<DelReq(p, "", a.entry.Hash, entryHash)>> ELSE <<>>

Sends(p, a, d, entryHash) ==
    CASE a.name = "commit" -> ActionCommit_Sends(p, a, d, entryHash)
      [] a.name = "mod"    -> ActionMod_Sends(p, a, d, entryHash)
      [] OTHER             -> ActionDel_Sends(p, a, d, entryHash)

ErrSend == "send failed"

\* the error Do returns after its sends; oks[i] tells whether send i succeeded
ActionCommit_SendErr(a, d, oks) ==
    IF d.DataFormat = DataFormatLinks
    THEN IF ~UnmarshalLinksOk(a.entry) THEN "json: cannot unmarshal" ELSE ""
    ELSE IF d.Sharing = Public /\ ~oks[1] THEN ErrSend ELSE ""

ActionMod_SendErr(a, d, oks) ==
    IF d.Sharing = Public /\ ~oks[2] THEN ErrSend ELSE ""

ActionDel_SendErr(a, d, oks) ==
    IF d.Sharing = Public /\ ~oks[1] THEN ErrSend ELSE ""

SendErr(a, d, oks) ==
    CASE a.name = "commit" -> ActionCommit_SendErr(a, d, oks)
      [] a.name = "mod"    -> ActionMod_SendErr(a, d, oks)
      [] OTHER             -> ActionDel_SendErr(a, d, oks)

\* the response of Do after a successful doCommit
DoResponse(a, d, entryHash) ==
    IF a.name = "commit" /\ d.DataFormat = DataFormatLinks /\ ~UnmarshalLinksOk(a.entry)
    THEN RespNil ELSE RespHash(entryHash)

\* the index of the chain's end, whatever PrepareHeader returned earlier
IndexAtEnd(ch, l) == Len(ch)

\* the index doCommit hands to addEntry: the one PrepareHeader returned
doCommitIndex(ch, l) == l

\* doCommit from addEntry on, and the rest of Do: what becomes of the chain,
\* which requests go out (tos: where dht.Send routes each, oks: whether the
\* send succeeds) and what Do returns.  l, hash and header are PrepareHeader's.
Committed(ch, p, a, l, hash, header, tos, oks) ==
    LET idx == doCommitIndex(ch, l)
        aerr == addEntryErr(ch, idx, hash, header)
        d == EntryDefs[a.entryType]
        entryHash == header.EntryLink
        msgs == Sends(p, a, d, entryHash)
        routed == [i \in 1..Len(msgs) |-> [msgs[i] EXCEPT !.To = tos[i]]]
    IN  IF aerr # ""
        THEN [chain |-> ch, out |-> {},
              ret |-> Returned("Do", p, a, NoMsg, aerr, RespNil, <<>>)]
        ELSE [chain |-> addEntry(ch, idx, hash, header),
              out |-> {routed[i] : i \in {j \in 1..Len(msgs) : oks[j]}},
              ret |-> Returned("Do", p, a, NoMsg, SendErr(a, d, oks),
                               DoResponse(a, d, entryHash), routed)]

\* how many requests the Do of a sends once doCommit has succeeded
NSends(p, a) ==
    IF GetEntryDefOk(a.entryType)
    THEN Len(Sends(p, a, EntryDefs[a.entryType], NullHash)) ELSE 0

\* Do of commit, mod or del by the agent of peer p, from the call to the
\* return: doCommit (PrepareHeader, ValidateAction, addEntry), then the sends
Do(p, a, tos, oks) ==
    /\ Len(chain[p]) < MaxChain
    /\ Cardinality(net) < MaxNet
    /\ DOMAIN tos = 1..NSends(p, a) /\ DOMAIN oks = 1..NSends(p, a)
    /\ LET prep == PrepareHeader(chain[p], a.entryType, EntryOf(a), ChangeOf(a))
           verr == doCommitErr(chain[p], a)
           done == Committed(chain[p], p, a, prep.l, prep.hash, prep.header, tos, oks)
       IN  IF verr # ""
           THEN /\ last' = Returned("Do", p, a, NoMsg, verr, RespNil, <<>>)
                /\ UNCHANGED <<chain, net>>
           ELSE /\ chain' = [chain EXCEPT ![p] = done.chain]
                /\ net' = net \cup done.out
                /\ last' = done.ret
    /\ UNCHANGED <<store, links, calls, hands, boot>>

----------------------------------------------------------------------------
(* Concurrent callers on the agent's chain: Do in the steps of doCommit.   *)

\* doCommit, first step: h.chain.PrepareHeader
CallPrepare(c, a) ==
    /\ calls[c].pc = "idle"
    /\ Len(chain[Agent]) + Cardinality({x \in Callers : calls[x].pc # "idle"}) < MaxChain
    /\ LET prep == PrepareHeader(chain[Agent], a.entryType, EntryOf(a), ChangeOf(a))
       IN  calls' = [calls EXCEPT ![c] =
                        [pc |-> "prepared", a |-> a, l |-> prep.l,
                         hash |-> prep.hash, header |-> prep.header]]
    /\ UNCHANGED <<chain, store, links, net, hands, last, boot>>

\* doCommit, second step: h.ValidateAction; on an error doCommit and Do
\* return it
CallValidate(c) ==
    /\ calls[c].pc = "prepared"
    /\ LET a == calls[c].a
           verr == doCommitErr(chain[Agent], a)
       IN  IF verr # ""
           THEN /\ calls' = [calls EXCEPT ![c] = IdleCall]
                /\ last' = Returned("Do", Agent, a, NoMsg, verr, RespNil, <<>>)
           ELSE /\ calls' = [calls EXCEPT ![c].pc = "validated"]
                /\ UNCHANGED last
    /\ UNCHANGED <<chain, store, links, net, hands, boot>>

\* doCommit, third step: h.chain.addEntry with the prepared index, and then
\* the rest of Do
CallAdd(c, tos, oks) ==
    /\ calls[c].pc = "validated"
    /\ DOMAIN tos = 1..NSends(Agent, calls[c].a) /\ DOMAIN oks = 1..NSends(Agent, calls[c].a)
    /\ LET k == calls[c]
           done == Committed(chain[Agent], Agent, k.a, k.l, k.hash, k.header, tos, oks)
       IN  /\ chain' = [chain EXCEPT ![Agent] = done.chain]
           /\ net' = net \cup done.out
           /\ last' = done.ret
    /\ calls' = [calls EXCEPT ![c] = IdleCall]
    /\ UNCHANGED <<store, links, hands, boot>>

----------------------------------------------------------------------------
(* The receiving side: the Receive handlers of PUT, MOD, DEL and LINK.     *)

\* the name of the validating action of a message and the hash its
\* validation pull asks the source for
NameOf(m) ==
    CASE m.Type = PUT_REQUEST -> "put"
      [] m.Type = MOD_REQUEST -> "mod"
      [] m.Type = DEL_REQUEST -> "del"
      [] OTHER                -> "link"

QueryOf(m) ==
    CASE m.Type = PUT_REQUEST -> m.H
      [] m.Type = MOD_REQUEST -> m.N
      [] m.Type = DEL_REQUEST -> m.By
      [] OTHER                -> m.Links

\* the check a handler makes before its validation pull: "" to go on, or the
\* error of dht.exists
Precondition(st, m) ==
    CASE m.Type = PUT_REQUEST  -> ""
      [] m.Type = LINK_REQUEST -> dht_exists(st, m.Base, StatusLive)
      [] OTHER                 -> dht_exists(st, m.H, StatusDefault)

\* how a handler ends on a failed precondition: MOD and DEL panic on
\* ErrHashNotFound, LINK logs and returns the error
PreconditionErr(m, e) ==
    CASE m.Type = MOD_REQUEST /\ e = ErrHashNotFound -> "panic: RETRY-MOD NOT IMPLEMENTED"
      [] m.Type = DEL_REQUEST /\ e = ErrHashNotFound -> "panic: RETRY-DELETE NOT IMPLEMENTED"
      [] OTHER -> e

\* what the handcrafted peer may answer to a validation pull
XHashes == {3}
XResponses ==
    { ValidateResponse("post", Universe[e],
                       [Type |-> "post", EntryLink |-> e, HeaderLink |-> NullHeaderHash,
                        Change |-> NoChange], PkgOk) : e \in XHashes }

\* RunValidationPhase: what h.Send(ValidateProtocol, source, ...) may bring
\* back.  An honest source answers with GetValidationResponse on its chain;
\* a pull over the network may also fail.  The handcrafted peer answers the
\* pull of a LINK receive with a links entry under a type of the DNA or
\* under a type the DNA does not have, the pull of a DEL receive with the
\* record the request names in By, and the pull for a hash outside XHashes
\* with that content under the DNA's type.
PullResponses(m) ==
    IF m.From = Handcrafted
    THEN (IF m.Type = LINK_REQUEST
          THEN { ValidateResponse(t, Universe[7],
                                  [Type |-> t, EntryLink |-> 7,
                                   HeaderLink |-> NullHeaderHash, Change |-> NoChange],
                                  PkgOk) : t \in {"rating", "nope"} }
          ELSE IF m.Type = DEL_REQUEST
          THEN { ValidateResponse("post", Universe[m.By],
                                  [Type |-> "post", EntryLink |-> m.By,
                                   HeaderLink |-> NullHeaderHash, Change |-> NoChange],
                                  PkgOk) }
          ELSE IF m.H \in XHashes THEN XResponses
          ELSE { ValidateResponse(DNAEntryType, Universe[m.H],
                                  [Type |-> DNAEntryType, EntryLink |-> m.H,
                                   HeaderLink |-> NullHeaderHash, Change |-> NoChange],
                                  PkgOk) })
         \cup {NoResponse}
    ELSE {GetValidationResponse(chain[m.From], NameOf(m), QueryOf(m))}
         \cup (IF m.From # m.To THEN {NoResponse} ELSE {})

\* the action a handler builds from the response
ReceivedAction(m, resp) ==
    CASE m.Type = PUT_REQUEST -> NewPutAction(resp.Type, resp.Entry)
      [] m.Type = MOD_REQUEST -> NewModAction(resp.Type, resp.Entry, m.H)
      [] m.Type = DEL_REQUEST -> NewDelAction(resp.Type, resp.Entry)
      [] OTHER                -> NewLinkAction(resp.Type, resp.Entry)

\* the decoding a handler does before it validates: "" or the error
DecodeErr(m, resp) ==
    CASE m.Type = DEL_REQUEST /\ ~ByteDecoderOk(resp.Entry)     -> "decode error"
      [] m.Type = LINK_REQUEST /\ ~UnmarshalLinksOk(resp.Entry) -> "json: cannot unmarshal"
      [] OTHER -> ""

\* ValidateAction of the pulled record on the handling node (chain ch), with
\* the sender as the only source
ReceiveValidate(ch, m, resp) ==
    ValidateAction(ch, ReceivedAction(m, resp), resp.Type, resp.Package)

\* a handler that runs its closure whatever the pull brought back
PullUnchecked(ch, m, resp) ==
    IF DecodeErr(m, resp) # "" THEN DecodeErr(m, resp)
    ELSE IF m.Type # PUT_REQUEST THEN ReceiveValidate(ch, m, resp)
    ELSE ""

\* the error that ends a handler after its pull without a store update:
\* no ValidateResponse, a decoding error, or (MOD, DEL, LINK) a failed
\* validation, which the closure returns as it is
PullErr(ch, m, resp) ==
    IF ~resp.ok THEN "validation pull failed"
    ELSE IF DecodeErr(m, resp) # "" THEN DecodeErr(m, resp)
    ELSE IF m.Type # PUT_REQUEST THEN ReceiveValidate(ch, m, resp)
    ELSE ""

\* a turn of the loop that stores the link whatever its LinkAction
AlwaysPutLink(lk, base, l) ==
    IF base = l.Base THEN dht_putLink(lk, base, l.Link, l.Tag) ELSE lk

\* a turn of the loop that does not look at the link's Base
ApplyAnyBase(lk, base, l) ==
    IF l.LinkAction = DelAction
    THEN dht_delLink(lk, l.Base, l.Link, l.Tag)
    ELSE dht_putLink(lk, l.Base, l.Link, l.Tag)

\* one turn of the loop of ActionLink.Receive over the links of the entry
ApplyLink(lk, base, l) ==
    IF base = l.Base
    THEN IF l.LinkAction = DelAction
         THEN dht_delLink(lk, base, l.Link, l.Tag)
         ELSE dht_putLink(lk, base, l.Link, l.Tag)
    ELSE lk

RECURSIVE ApplyLinks(_, _, _)
ApplyLinks(lk, base, ls) ==
    IF ls = <<>> THEN lk ELSE ApplyLinks(ApplyLink(lk, base, Head(ls)), base, Tail(ls))

\* a status that does not look at the validation
AlwaysLive(verr) == StatusLive

\* the status ActionPut.Receive stores
PutStatus(verr) == IF verr # "" THEN StatusRejected ELSE StatusLive

\* the store and the link index of the handling peer after the update of a
\* handler; verr is what ValidateAction returned
ActionPut_Update(st, m, resp, verr) ==
    dht_put(st, resp.Type, m.H, m.From, Marshal(resp.Entry), PutStatus(verr))

ActionMod_Update(st, m, resp) == dht_mod(st, m.From, m.H, m.N)

\* a del that only touches a Live record
DelOnlyLive(st, m, resp) ==
    IF st[resp.Entry.Hash].Status = StatusLive THEN dht_del(st, m.From, resp.Entry.Hash) ELSE st

\* the hash deleted is the one the pulled DelEntry names
ActionDel_Update(st, m, resp) == dht_del(st, m.From, resp.Entry.Hash)

ActionLink_Update(lk, m, resp) == ApplyLinks(lk, m.Base, resp.Entry.Links)

UpdatedStore(st, m, resp, verr) ==
    CASE m.Type = PUT_REQUEST -> ActionPut_Update(st, m, resp, verr)
      [] m.Type = MOD_REQUEST -> ActionMod_Update(st, m, resp)
      [] m.Type = DEL_REQUEST -> ActionDel_Update(st, m, resp)
      [] OTHER -> st

UpdatedLinks(lk, m, resp) ==
    IF m.Type = LINK_REQUEST THEN ActionLink_Update(lk, m, resp) ELSE lk

UpdateErr(st, m, resp) ==
    CASE m.Type = MOD_REQUEST -> dht_delErr(st, m.H)
      [] m.Type = DEL_REQUEST -> dht_delErr(st, resp.Entry.Hash)
      [] OTHER -> ""

\* ActionMod.Do sends its MOD_REQUEST when the Send of its PUT_REQUEST has
\* returned: a MOD is not handled while that PUT is still to be handled
AfterItsPut(m) ==
    m.Type = MOD_REQUEST =>
        ~\E x \in net : x.Type = PUT_REQUEST /\ x.From = m.From /\ x.H = m.N

\* Receive of message m on the peer it was routed to, from the dispatch to
\* the return; resp is what the validation pull brings back
Receive(m, resp) ==
    /\ m \in net
    /\ AfterItsPut(m)
    /\ resp \in PullResponses(m)
    /\ net' = net \ {m}
    /\ LET p == m.To
           e == Precondition(store[p], m)
           perr == PullErr(chain[p], m, resp)
           verr == ReceiveValidate(chain[p], m, resp)
       IN  IF e # ""
           THEN /\ last' = Returned("Receive", p, NoAction, m, PreconditionErr(m, e), RespNil, <<>>)
                /\ UNCHANGED <<store, links>>
           ELSE IF perr # ""
           THEN /\ last' = Returned("Receive", p, NoAction, m, perr, RespQueued, <<>>)
                /\ UNCHANGED <<store, links>>
           ELSE /\ store' = [store EXCEPT ![p] = UpdatedStore(@, m, resp, verr)]
                /\ links' = [links EXCEPT ![p] = UpdatedLinks(@, m, resp)]
                /\ last' = Returned("Receive", p, ReceivedAction(m, resp), m,
                                    UpdateErr(store[p], m, resp), RespQueued, <<>>)
    /\ UNCHANGED <<chain, calls, hands, boot>>

\* ActionGetLink.Receive: the answer to a LinkQuery on a peer's link index
LinkQuery(base, tag, mask) == [Base |-> base, T |-> tag, StatusMask |-> mask]

ActionGetLink_Receive(lk, lq) ==
    [Links |-> dht_getLink(lk, lq.Base, lq.T, lq.StatusMask), err |-> ""]

\* ActionGet.Receive: the GetResp and the error for a GetReq
\* [H, StatusMask, GetMask] on a peer's store; GetMask is the set of its
\* bits, {} the default
ActionGet_Receive(st, req) ==
    LET mask == IF req.GetMask = {} THEN {"Entry"} ELSE req.GetMask
        g == dht_get(st, req.H, req.StatusMask)
        served == g.err = "" /\ "Entry" \in mask
    IN  IF served /\ g.entryType = DNAEntryType
        THEN [EntryType |-> "", Entry |-> NilEntry, Sources |-> {}, FollowHash |-> NullHash,
              err |-> "panic: nobody should actually get the DNA!"]
        ELSE [EntryType |-> IF "EntryType" \in mask THEN g.entryType ELSE "",
              Entry |-> IF served THEN Unmarshal(g.data) ELSE NilEntry,
              Sources |-> g.sources,
              FollowHash |-> IF g.err = "hash modified" THEN g.follow ELSE NullHash,
              err |-> g.err]

\* Receive of a GET_REQUEST on peer p
GetReceive(p, req) ==
    /\ LET r == ActionGet_Receive(store[p], req)
       IN  last' = Returned("Receive", p, NoAction,
                            [Type |-> GET_REQUEST, To |-> p, H |-> req.H,
                             StatusMask |-> req.StatusMask, GetMask |-> req.GetMask],
                            r.err, r, <<>>)
    /\ UNCHANGED <<chain, store, links, net, calls, hands, boot>>

\* ActionGet.Do with options.Local: the GetResp and the error of a get of
\* hash h on the node's own chain; mask is the set of bits of
\* options.GetMask, {} the default
ActionGet_DoLocal(ch, h, mask) ==
    IF ~HasEntry(ch, h)
    THEN [EntryType |-> "", Entry |-> NilEntry, err |-> ErrHashNotFound]
    ELSE [EntryType |-> IF "EntryType" \in mask THEN GetEntryHeader(ch, h).Type ELSE "",
          Entry |-> IF "Entry" \in mask THEN Universe[h] ELSE NilEntry,
          err |-> ""]

\* Do of a get action with Local = true on peer p
GetLocal(p, h, mask) ==
    /\ LET r == ActionGet_DoLocal(chain[p], h, mask)
       IN  last' = Returned("Do", p, Action("get", "", NilEntry, NullHash),
                            [H |-> h, GetMask |-> mask, Local |-> TRUE], r.err, r, <<>>)
    /\ UNCHANGED <<chain, store, links, net, calls, hands, boot>>

\* a PUT_REQUEST sent by hand (8, scenario 4)
HandcraftedPut(q, h) ==
    /\ Cardinality(net) < MaxNet
    /\ PutReq(Handcrafted, q, h) \notin net
    /\ net' = net \cup {PutReq(Handcrafted, q, h)}
    /\ UNCHANGED <<chain, store, links, calls, hands, last, boot>>

----------------------------------------------------------------------------
(* Concurrent handlers on one peer: Receive in the steps precondition      *)
(* check, validation pull, store update.                                   *)

Hand(m, pc, resp, verr) == [msg |-> m, pc |-> pc, resp |-> resp, verr |-> verr]

\* first step: the message is taken up and the precondition checked
RecvStart(m) ==
    /\ m \in net
    /\ AfterItsPut(m)
    /\ net' = net \ {m}
    /\ LET e == Precondition(store[m.To], m)
       IN  IF e # ""
           THEN /\ last' = Returned("Receive", m.To, NoAction, m, PreconditionErr(m, e), RespNil, <<>>)
                /\ UNCHANGED hands
           ELSE /\ hands' = hands \cup {Hand(m, "pull", NoResponse, "")}
                /\ UNCHANGED last
    /\ UNCHANGED <<chain, store, links, calls, boot>>

\* second step: the validation pull returns and the handler validates the
\* pulled record on its own node
RecvPull(hr, resp) ==
    /\ hr \in hands /\ hr.pc = "pull"
    /\ resp \in PullResponses(hr.msg)
    /\ LET m == hr.msg
           perr == PullErr(chain[m.To], m, resp)
       IN  IF perr # ""
           THEN /\ hands' = hands \ {hr}
                /\ last' = Returned("Receive", m.To, NoAction, m, perr, RespQueued, <<>>)
           ELSE /\ hands' = (hands \ {hr}) \cup
                            {Hand(m, "update", resp, ReceiveValidate(chain[m.To], m, resp))}
                /\ UNCHANGED last
    /\ UNCHANGED <<chain, store, links, net, calls, boot>>

\* third step: the store update, and the return
RecvUpdate(hr) ==
    /\ hr \in hands /\ hr.pc = "update"
    /\ LET m == hr.msg
           p == m.To
       IN  /\ store' = [store EXCEPT ![p] = UpdatedStore(@, m, hr.resp, hr.verr)]
           /\ links' = [links EXCEPT ![p] = UpdatedLinks(@, m, hr.resp)]
           /\ last' = Returned("Receive", p, ReceivedAction(m, hr.resp), m,
                               UpdateErr(store[p], m, hr.resp), RespQueued, <<>>)
    /\ hands' = hands \ {hr}
    /\ UNCHANGED <<chain, net, calls, boot>>

----------------------------------------------------------------------------
(* Spec: the agent's Do calls one at a time, the handlers of the messages  *)
(* it sends, each run to its end, and the handcrafted peer.                *)

\* what the agent asks for
DoInputs ==
    { NewCommitAction("post", Universe[1]),
      NewCommitAction("rating", Universe[5]),
      NewCommitAction("rating", Universe[6]),
      NewModAction("post", Universe[2], 1),
      NewDelAction("post", Universe[4]) }

\* where dht.Send may route the requests of a Do, and whether each send
\* succeeds; in Spec every send does
RoutesOf(a) == [1..NSends(Agent, a) -> Peers]
OutcomesOf(a) == [1..NSends(Agent, a) -> BOOLEAN]
AllSentOf(a) == [1..NSends(Agent, a) -> {TRUE}]

\* the peer the handcrafted requests go to
XTargets == {"B"}

Next ==
    \/ \E a \in DoInputs : \E tos \in RoutesOf(a), oks \in AllSentOf(a) : Do(Agent, a, tos, oks)
    \/ \E m \in net : \E resp \in PullResponses(m) : Receive(m, resp)
    \/ \E q \in XTargets, h \in XHashes : HandcraftedPut(q, h)

Spec == Init /\ [][Next]_vars

----------------------------------------------------------------------------
(* SpecDo: the agent's Do calls alone, one at a time, over more inputs and *)
(* with sends that may fail.                                               *)

DoAllInputs ==
    { NewCommitAction("post", Universe[1]),
      NewCommitAction("post", Universe[3]),
      NewCommitAction("note", Universe[2]),
      NewCommitAction("nope", Universe[1]),
      NewCommitAction("rating", Universe[7]),
      NewCommitAction("rating", Universe[8]),
      NewModAction("post", Universe[2], 1),
      NewModAction("post", Universe[3], 1),
      NewModAction("note", Universe[2], 1),
      NewModAction("note", Universe[1], 2),
      NewModAction("rating", Universe[5], 1),
      NewDelAction("post", Universe[4]),
      NewDelAction("note", Universe[4]) }

NextDo ==
    \E a \in DoAllInputs : \E tos \in RoutesOf(a), oks \in OutcomesOf(a) : Do(Agent, a, tos, oks)

SpecDo == Init /\ [][NextDo]_vars

----------------------------------------------------------------------------
(* SpecCommit: concurrent callers of Do on the agent's chain, each in the  *)
(* steps of doCommit.                                                      *)

CommitInputs ==
    { NewCommitAction("post", Universe[1]),
      NewCommitAction("post", Universe[3]),
      NewCommitAction("note", Universe[2]),
      NewModAction("post", Universe[2], 1),
      NewDelAction("post", Universe[4]) }

NextCommit ==
    \E c \in Callers :
        \/ \E a \in CommitInputs : CallPrepare(c, a)
        \/ CallValidate(c)
        \/ \E tos \in RoutesOf(calls[c].a), oks \in AllSentOf(calls[c].a) : CallAdd(c, tos, oks)

SpecCommit == Init /\ [][NextCommit]_vars

----------------------------------------------------------------------------
(* SpecRace: a MOD and a DEL for the same Live hash, handled concurrently. *)
(* Two peers are in the same situation: the agent of each has committed    *)
(* "a" (hash 1), replaced it by "b" (hash 2) and deleted it (deletion      *)
(* record 4); each peer holds hashes 1 and 2 Live after their PUTs, and    *)
(* the MOD_REQUEST and the DEL_REQUEST, routed to the peer itself, are     *)
(* still to be handled.                                                    *)

Extend(ch, a) ==
    LET prep == PrepareHeader(ch, a.entryType, EntryOf(a), ChangeOf(a))
    IN  addEntry(ch, prep.l, prep.hash, prep.header)

RaceChain ==
    Extend(Extend(Extend(<<>>, NewCommitAction("post", Universe[1])),
                  NewModAction("post", Universe[2], 1)),
           NewDelAction("post", Universe[4]))

RaceStore(p) ==
    LET r1 == GetValidationResponse(RaceChain, "put", 1)
        r2 == GetValidationResponse(RaceChain, "put", 2)
        s0 == [h \in Hashes |-> NoRecord]
        s1 == ActionPut_Update(s0, PutReq(p, p, 1), r1, "")
    IN  ActionPut_Update(s1, PutReq(p, p, 2), r2, "")

InitRace ==
    /\ chain = [p \in Peers |-> RaceChain]
    /\ store = [p \in Peers |-> RaceStore(p)]
    /\ links = [p \in Peers |-> [k \in LinkKeys |-> Absent]]
    /\ net = UNION { {ModReq(p, p, 1, 2), DelReq(p, p, 1, 4)} : p \in Peers }
    /\ calls = [c \in Callers |-> IdleCall]
    /\ hands = {}
    /\ boot = [pc |-> "idle"]
    /\ last = NoReturn

NextRace ==
    \/ \E m \in net : RecvStart(m)
    \/ \E hr \in hands : \E resp \in PullResponses(hr.msg) : RecvPull(hr, resp)
    \/ \E hr \in hands : RecvUpdate(hr)

SpecRace == InitRace /\ [][NextRace]_vars

----------------------------------------------------------------------------
(* SpecLink: the LINK receives of one peer.  The agent commits two posts   *)
(* and links entries, all its requests are routed to peer B, and the       *)
(* handcrafted peer sends LINK requests of its own.                        *)

\* a LINK_REQUEST or DEL_REQUEST sent by hand
HandcraftedSend(m) ==
    /\ Cardinality(net) < MaxNet
    /\ m \notin net
    /\ net' = net \cup {m}
    /\ UNCHANGED <<chain, store, links, calls, hands, last, boot>>

NextLink ==
    \/ \E a \in { NewCommitAction("post", Universe[1]),
                   NewCommitAction("post", Universe[2]),
                   NewCommitAction("rating", Universe[6]),
                   NewCommitAction("rating", Universe[7]) } :
           \E tos \in [1..NSends(Agent, a) -> XTargets], oks \in AllSentOf(a) : Do(Agent, a, tos, oks)
    \/ \E m \in net : \E resp \in PullResponses(m) : Receive(m, resp)
    \/ \E q \in XTargets, base \in {1, 2} : HandcraftedSend(LinkReq(Handcrafted, q, base, 7))

SpecLink == Init /\ [][NextLink]_vars

----------------------------------------------------------------------------
(* SpecGet: the agent commits, modifies and deletes a post, handles itself *)
(* the requests it sends, a PUT_REQUEST sent by hand for a record of the   *)
(* DNA's type and a DEL_REQUEST sent by hand, answers the GET requests     *)
(* that arrive, and gets entries from its own chain.                       *)

\* the GetReq bodies that arrive: the hash, the status mask and the bits of
\* the get mask
GetReqs ==
    [H : {1, 2},
     StatusMask : {StatusDefault, StatusModified, StatusDeleted},
     GetMask : {{}, {"EntryType"}}]

NextGet ==
    \/ \E a \in { NewCommitAction("post", Universe[1]),
                   NewModAction("post", Universe[2], 1),
                   NewDelAction("post", Universe[4]) } :
           \E tos \in [1..NSends(Agent, a) -> {Agent}], oks \in AllSentOf(a) :
               Do(Agent, a, tos, oks)
    \/ \E m \in net : \E resp \in PullResponses(m) : Receive(m, resp)
    \/ \E req \in GetReqs : GetReceive(Agent, req)
    \/ HandcraftedPut(Agent, 2)
    \/ HandcraftedSend(DelReq(Handcrafted, Agent, 2, 4))
    \/ \E h \in {1, 2}, mask \in SUBSET {"Entry", "EntryType"} : GetLocal(Agent, h, mask)

SpecGet == Init /\ [][NextGet]_vars

----------------------------------------------------------------------------
(* SpecArgs: checkArgCount applied to the argument lists of an action.     *)

MaxArgs == 3

ErrWrongNargs == "wrong number of arguments"

\* a check that forgets the upper limit
ArgCountNoUpper(args, l) ==
    IF l < Cardinality({i \in 1..Len(args) : ~args[i].Optional}) THEN ErrWrongNargs ELSE ""

\* checkArgCount(args, l): min counts the arguments that are not optional,
\* one turn of the loop per argument
checkArgCount(args, l) ==
    LET RECURSIVE Count(_)
        Count(i) == IF i = 0 THEN 0
                    ELSE Count(i - 1) + (IF ~args[i].Optional THEN 1 ELSE 0)
        min == Count(Len(args))
    IN  IF l < min \/ l > Len(args) THEN ErrWrongNargs ELSE ""

\* the argument lists (an Arg is its Optional flag) and the counts a call
\* is checked with
InitArgs ==
    /\ chain = [p \in Peers |-> <<>>]
    /\ store = [p \in Peers |-> [h \in Hashes |-> NoRecord]]
    /\ links = [p \in Peers |-> [k \in LinkKeys |-> Absent]]
    /\ net = {}
    /\ calls = [c \in Callers |-> IdleCall]
    /\ hands = {}
    /\ boot = [pc |-> "idle"]
    /\ \E n \in 0..MaxArgs, l \in -1..(MaxArgs + 1) :
           \E args \in [1..n -> [Optional : BOOLEAN]] :
               last = Returned("args", "", NoAction, [args |-> args, l |-> l], "", RespNil, <<>>)

\* one call of checkArgCount on the arguments drawn
CallCheckArgCount ==
    /\ last.op = "args"
    /\ last' = [last EXCEPT !.op = "checkArgCount",
                            !.err = checkArgCount(last.msg.args, last.msg.l)]
    /\ UNCHANGED <<chain, store, links, net, calls, hands, boot>>

SpecArgs == InitArgs /\ [][CallCheckArgCount]_vars

----------------------------------------------------------------------------
(* SpecBS: checkBSResponses over the list of nodes a bootstrap server      *)
(* returned.  A string is the sequence of its characters.  The loop runs   *)
(* in the steps decode, make the address, offer; each AddPeer runs in a    *)
(* goroutine of its own, which assigns its result to the err of            *)
(* checkBSResponses while the loop goes on reading and writing it.         *)

MaxNodes == 2

\* lines 69-88: host and port of the peer, from ReturnAddr when it splits
\* in two at ":" and its host is not empty, otherwise from Remote and the
\* last segment of NodeAddr; and ma.NewMultiaddr of /ip4/host/tcp/port,
\* which wants an address ("r", "m") and a number
BSAddr(r) ==
    LET Split(s, sep) ==
            LET RECURSIVE Parts(_)
                Parts(k) ==
                    IF k = 0 THEN << <<>> >>
                    ELSE LET prev == Parts(k - 1)
                         IN  IF s[k] = sep THEN Append(prev, <<>>)
                             ELSE [prev EXCEPT ![Len(prev)] = Append(@, s[k])]
            IN  Parts(Len(s))
        x == Split(r.Req.ReturnAddr, ":")
        two == r.Req.ReturnAddr # <<>> /\ Len(x) = 2
        host1 == IF two THEN x[1] ELSE <<>>
        port1 == IF two THEN x[2] ELSE <<>>
        y == Split(r.Req.NodeAddr, "/")
        host == IF host1 = <<>> THEN Split(r.Remote, ":")[1] ELSE host1
        port == IF host1 = <<>> THEN y[Len(y)] ELSE port1
        valid == /\ host # <<>> /\ \A i \in 1..Len(host) : host[i] \in {"r", "m"}
                 /\ port # <<>> /\ \A i \in 1..Len(port) : port[i] \in {"5", "6", "7"}
    IN  IF valid THEN [addr |-> [host |-> host, port |-> port], err |-> ""]
        ELSE [addr |-> [host |-> <<>>, port |-> <<>>], err |-> "invalid multiaddr"]

\* the nodes a server may return, and the run before its first step
InitBS ==
    /\ chain = [p \in Peers |-> <<>>]
    /\ store = [p \in Peers |-> [h \in Hashes |-> NoRecord]]
    /\ links = [p \in Peers |-> [k \in LinkKeys |-> Absent]]
    /\ net = {}
    /\ calls = [c \in Callers |-> IdleCall]
    /\ hands = {}
    /\ last = NoReturn
    /\ \E n \in 0..MaxNodes :
           \E nodes \in [1..n -> [Req : [NodeID : {"me", "p", "!"},
                                         NodeAddr : {<<"/", "n", "/", "6">>, <<"/", "n", "/">>},
                                         ReturnAddr : {<<>>, <<"r", ":", "7">>, <<":", "7">>}],
                                  Remote : {<<"m", ":", "5">>}]] :
               boot = [myNodeID |-> "me", nodes |-> nodes, i |-> 1,
                       pc |-> IF n = 0 THEN "return" ELSE "decode",
                       id |-> "", addr |-> [host |-> <<>>, port |-> <<>>], err |-> "",
                       running |-> {}, offered |-> {}]

\* one step of the loop of checkBSResponses on the node r it is at:
\* peer.IDB58Decode (only "!" does not decode), then the address if err is
\* nil, then the goroutine if err is nil and the node is not this one
checkBSResponses_Step ==
    /\ boot.pc \in {"decode", "decoded", "made"}
    /\ LET r == boot.nodes[boot.i]
           next == [boot EXCEPT !.i = @ + 1,
                                !.pc = IF boot.i = Len(boot.nodes) THEN "return" ELSE "decode"]
       IN  boot' =
             CASE boot.pc = "decode" ->
                    [boot EXCEPT !.id = IF r.Req.NodeID = "!" THEN "" ELSE r.Req.NodeID,
                                 !.addr = [host |-> <<>>, port |-> <<>>],
                                 !.err = IF r.Req.NodeID = "!" THEN "invalid peer id" ELSE "",
                                 !.pc = "decoded"]
               [] boot.pc = "decoded" ->
                    IF boot.err = ""
                    THEN [boot EXCEPT !.addr = BSAddr(r).addr, !.err = BSAddr(r).err,
                                      !.pc = "made"]
                    ELSE next
               [] OTHER ->
                    IF boot.err = "" /\ r.Req.NodeID # boot.myNodeID
                    THEN [next EXCEPT !.running =
                              @ \cup {[n |-> boot.i, ID |-> boot.id, Addr |-> boot.addr]}]
                    ELSE next
    /\ UNCHANGED <<chain, store, links, net, calls, hands, last>>

\* a goroutine runs: h.AddPeer is handed the PeerInfo, and what it returns
\* is assigned to err
AddPeerRun ==
    /\ \E g \in boot.running, e \in {"", "peer not added"} :
           boot' = [boot EXCEPT !.running = @ \ {g}, !.offered = @ \cup {g}, !.err = e]
    /\ UNCHANGED <<chain, store, links, net, calls, hands, last>>

SpecBS == InitBS /\ [][checkBSResponses_Step \/ AddPeerRun]_vars

----------------------------------------------------------------------------
(* SpecValidate: ValidateAction called on the agent's node, whose chain    *)
(* grows by commits, for actions, entry types and packages of every kind.  *)

\* one call of h.ValidateAction(a, entryType, pkg, sources)
CallValidateAction(a, entryType, pkg) ==
    /\ LET run == ValidateActionRun(chain[Agent], a, entryType, pkg)
       IN  last' = Returned("ValidateAction", Agent, a,
                            [entryType |-> entryType, pkg |-> pkg], run.err, run.steps, <<>>)
    /\ UNCHANGED <<chain, store, links, net, calls, hands, boot>>

NextValidate ==
    \/ \E a \in { NewCommitAction("post", Universe[1]), NewCommitAction("note", Universe[2]) } :
           \E tos \in RoutesOf(a), oks \in AllSentOf(a) : Do(Agent, a, tos, oks)
    \/ \E a \in { NewCommitAction("post", Universe[1]),
                   NewCommitAction("post", Universe[3]),
                   NewPutAction("post", Universe[3]),
                   NewModAction("post", Universe[2], 1),
                   NewModAction("post", Universe[3], 2),
                   NewDelAction("post", Universe[4]),
                   NewLinkAction("rating", Universe[5]) },
              entryType \in {"post", "rating", "nope", AgentEntryType},
              pkg \in {PkgNone, PkgOk, PkgBroken} :
           CallValidateAction(a, entryType, pkg)

SpecValidate == Init /\ [][NextValidate]_vars

----------------------------------------------------------------------------
(* Properties.                                                             *)

\* the step is the handling of a message: some message leaves net
Handled(m) == m \in net /\ m \notin net' /\ last'.op = "Receive" /\ last'.msg = m

\* C1: the status of a record never moves backwards: a Rejected or Deleted
\* record keeps its status for ever, and a Modified record never becomes
\* Live again.
C1_StatusStep ==
    \A p \in Peers, h \in Hashes :
        /\ store[p][h].Status \in {StatusRejected, StatusDeleted}
               => store'[p][h].Status = store[p][h].Status
        /\ store[p][h].Status = StatusModified => store'[p][h].Status # StatusLive

C1_StatusNeverBackwards == [][C1_StatusStep]_vars

\* C2: a MOD and a DEL for the same Live hash, handled concurrently, end
\* in one final status whatever the interleaving: two peers that have both
\* handled the two requests hold hash 1 with the same status.
RaceDone == net = {} /\ hands = {}

C2_RaceDeterministic ==
    RaceDone => store["A"][1].Status = store["B"][1].Status

\* C3: with concurrent doCommit calls on one chain, every append lands at
\* the index equal to the chain's length at that moment and its header links
\* to the header just before it; a call whose prepared index is stale
\* returns an error and leaves the chain as it is.
AddReturns(c) == calls[c].pc = "validated" /\ calls'[c].pc = "idle"

C3_AddStep ==
    /\ \A c \in Callers :
           AddReturns(c) =>
               IF calls[c].l = Len(chain[Agent])
               THEN /\ chain'[Agent] = Append(chain[Agent], calls[c].header)
                    /\ calls[c].header.HeaderLink = TopHash(chain[Agent])
               ELSE /\ chain'[Agent] = chain[Agent]
                    /\ last'.op = "Do" /\ last'.a = calls[c].a /\ last'.err # ""
                    /\ net' = net
    /\ chain'[Agent] # chain[Agent] => \E c \in Callers : AddReturns(c)

C3_ChainLinked ==
    \A i \in 1..Len(chain[Agent]) :
        chain[Agent][i].HeaderLink =
            IF i = 1 THEN NullHeaderHash ELSE HeaderSum(chain[Agent][i - 1])

C3_AppendAtLength == []C3_ChainLinked /\ [][C3_AddStep]_vars

\* a call has returned the index error while the chain holds another
\* caller's entry
C3_StaleFailed ==
    /\ last.op = "Do" /\ last.err = "ErrIndexMismatch"
    /\ Len(chain[Agent]) >= 2

\* C4: when the local ValidateAction of a commit, mod or del fails, Do
\* returns an error, the chain is exactly as before the call and no request
\* has been sent.
C4_Step ==
    (last'.op = "Do" /\ ValidateAction(chain[Agent], last'.a, last'.a.entryType, PkgNone) # "")
        => /\ last'.err # ""
           /\ chain' = chain
           /\ net' = net
           /\ last'.sent = <<>>

C4_FailedValidationNoEffect == [][C4_Step]_vars

\* a Do has returned "Invalid entry" on a chain that holds entries
C4_InvalidReturned ==
    last.op = "Do" /\ last.err = "Invalid entry" /\ Len(chain[Agent]) >= 1

\* C5: when the validation pull of a PUT_REQUEST brings back a
\* ValidateResponse, the handler stores a record for the requested hash with
\* the sender among its sources, Rejected if ValidateAction of the pulled
\* entry fails and Live if it passes, and replies "queued".
PutStored ==
    /\ last.op = "Receive" /\ last.msg.Type = PUT_REQUEST
    /\ last.a # NoAction

HandledElsewhere(m, h) ==
    /\ Handled(m)
    /\ m.From = Agent /\ m.To # Agent
    /\ store[m.To][h].Status = StatusLive
    /\ last'.err # "validation pull failed"

\* C6: when the MOD_REQUEST of a successful mod of h1 by h2 is handled by a
\* different peer that holds h1 Live, and the originator answers the
\* validation pull, that peer's record for h1 becomes Modified with
\* FollowHash h2.
C6_Step ==
    \A m \in net :
        (m.Type = MOD_REQUEST /\ HandledElsewhere(m, m.H))
            => /\ store'[m.To][m.H].Status = StatusModified
               /\ store'[m.To][m.H].FollowHash = m.N

C6_ModElsewhere == [][C6_Step]_vars

\* C7: when the DEL_REQUEST of a successful del of h is handled by a
\* different peer that holds h Live, and the originator answers the
\* validation pull, that peer's record for h becomes Deleted.
C7_Step ==
    \A m \in net :
        (m.Type = DEL_REQUEST /\ HandledElsewhere(m, m.H))
            => store'[m.To][m.H].Status = StatusDeleted

C7_DelElsewhere == [][C7_Step]_vars

\* C8: the FollowHash of every Modified record is the key of a record that
\* is present in the same store and is not Rejected.
C8_FollowHashPresent ==
    \A p \in Peers, h \in Hashes :
        store[p][h].Status = StatusModified
            => /\ store[p][h].FollowHash \in Hashes
               /\ store[p][store[p][h].FollowHash].Status \notin {Absent, StatusRejected}

\* the last handler was a LINK receive that went through its loop
LinkApplied ==
    /\ last.op = "Receive" /\ last.msg.Type = LINK_REQUEST
    /\ last.a # NoAction

\* link i of the entry is the last word of the LINK receive on its
\* (Base, Link, Tag), and that word is del
DelApplied(i) ==
    LET ls == last.a.entry.Links
    IN  /\ ls[i].Base = last.msg.Base
        /\ ls[i].LinkAction = DelAction
        /\ \A j \in (i + 1)..Len(ls) :
               <<ls[j].Base, ls[j].Link, ls[j].Tag>> # <<ls[i].Base, ls[i].Link, ls[i].Tag>>

\* C9: once a LINK receive has applied the del of link l on base b under a
\* tag (after an earlier LINK receive added it), a GETLINK receive for b and
\* that tag with StatusMask Live does not return l.
C9_DeletedLinkNotReturned ==
    LinkApplied =>
        \A i \in 1..Len(last.a.entry.Links) :
            DelApplied(i) =>
                LET l == last.a.entry.Links[i]
                    r == ActionGetLink_Receive(links[last.peer],
                                               LinkQuery(l.Base, l.Tag, StatusLive))
                IN  l.Link \notin r.Links

\* a link that had been added has been deleted by the last LINK receive
C9_AddedThenDeleted ==
    /\ LinkApplied
    /\ \E i \in 1..Len(last.a.entry.Links) :
           /\ DelApplied(i)
           /\ LET l == last.a.entry.Links[i]
              IN  links[last.peer][<<l.Base, l.Link, l.Tag>>] = StatusDeleted

\* the last Do was a successful commit of a links entry
LinksCommitted ==
    /\ last.op = "Do" /\ last.a.name = "commit" /\ last.err = ""
    /\ GetEntryDefOk(last.a.entryType)
    /\ EntryDefs[last.a.entryType].DataFormat = DataFormatLinks
    /\ last.response = RespHash(Sum(last.a.entry))

\* C10: a successful commit of a links entry sends exactly one LINK_REQUEST
\* for every distinct Base among the entry's links, with that Base and with
\* Links the hash of the committed entry, and sends no PUT_REQUEST.
C10_OneLinkRequestPerBase ==
    LinksCommitted =>
        LET ls == last.a.entry.Links
            bases == {ls[i].Base : i \in 1..Len(ls)}
            sent == last.sent
        IN  /\ \A i \in 1..Len(sent) :
                   /\ sent[i].Type = LINK_REQUEST
                   /\ sent[i].From = Agent
                   /\ sent[i].Base \in bases
                   /\ sent[i].Links = Sum(last.a.entry)
            /\ \A b \in bases : Cardinality({i \in 1..Len(sent) : sent[i].Base = b}) = 1

\* a links entry with more links than bases has been committed
C10_SharedBaseCommitted ==
    /\ LinksCommitted
    /\ Len(last.sent) >= 2
    /\ Len(last.a.entry.Links) > Len(last.sent)

\* the Do of this step appended header hd, for entry hash h, to the chain
Appended(h) ==
    /\ Len(chain'[Agent]) = Len(chain[Agent]) + 1
    /\ SubSeq(chain'[Agent], 1, Len(chain[Agent])) = chain[Agent]
    /\ chain'[Agent][Len(chain'[Agent])].EntryLink = h

\* the requests of the step's Do, their destinations left out
SentUnrouted == [i \in 1..Len(last'.sent) |-> [last'.sent[i] EXCEPT !.To = ""]]

\* C11: a successful commit of an entry that is no links entry sends exactly
\* one PUT_REQUEST for the entry's hash when the type is public and nothing
\* when it is private, and Do returns the hash of the appended entry.
C11_Step ==
    (/\ last'.op = "Do" /\ last'.a.name = "commit"
     /\ chain'[Agent] # chain[Agent]
     /\ EntryDefs[last'.a.entryType].DataFormat # DataFormatLinks)
        => LET h == Sum(last'.a.entry)
           IN  /\ Appended(h)
               /\ last'.response = RespHash(h)
               /\ IF EntryDefs[last'.a.entryType].Sharing = Public
                  THEN SentUnrouted = <<PutReq(Agent, "", h)>>
                  ELSE last'.sent = <<>> /\ net' = net

C11_CommitSends == [][C11_Step]_vars

\* a private entry has been committed: its hash returned, nothing sent
C11_PrivateCommitted ==
    /\ last.op = "Do" /\ last.a = NewCommitAction("note", Universe[2])
    /\ last.err = "" /\ last.response = RespHash(2) /\ last.sent = <<>>
    /\ HasEntry(chain[Agent], 2)

\* C12: a successful mod of a public entry appends the new entry to the
\* chain, then sends PUT_REQUEST for the new hash, then MOD_REQUEST for the
\* replaced hash with the new one, in that order; a mod of a private entry
\* sends neither; a mod that appends nothing sends nothing.
C12_Step ==
    (last'.op = "Do" /\ last'.a.name = "mod")
        => IF chain'[Agent] = chain[Agent]
           THEN last'.sent = <<>> /\ net' = net
           ELSE LET h == Sum(last'.a.entry)
                IN  /\ Appended(h)
                    /\ IF EntryDefs[last'.a.entryType].Sharing = Public
                       THEN SentUnrouted = <<PutReq(Agent, "", h),
                                             ModReq(Agent, "", last'.a.replaces, h)>>
                       ELSE last'.sent = <<>> /\ net' = net

C12_ModSends == [][C12_Step]_vars

\* a public mod has sent its two requests
C12_PublicModSent ==
    /\ last.op = "Do" /\ last.a.name = "mod" /\ last.err = ""
    /\ Len(last.sent) = 2 /\ last.sent[2].Type = MOD_REQUEST

\* the private case: a private mod has been appended and has sent nothing
C12_PrivateModDone ==
    /\ last.op = "Do" /\ last.a = NewModAction("note", Universe[1], 2)
    /\ last.response = RespHash(1) /\ last.sent = <<>>

\* C13: whenever a send of a PUT_REQUEST, MOD_REQUEST, DEL_REQUEST or
\* LINK_REQUEST made by the Do of commit, mod or del fails (the request does
\* not reach the network), Do returns an error.
C13_Step ==
    (last'.op = "Do" /\ \E i \in 1..Len(last'.sent) : last'.sent[i] \notin net')
        => last'.err # ""

C13_SendFailureReturned == [][C13_Step]_vars

\* the step handles m, whose precondition holds and whose pull brings back a
\* record that the handling peer's ValidateAction refuses
HandledInvalid(m) ==
    /\ Handled(m)
    /\ Precondition(store[m.To], m) = ""
    /\ last'.err # "validation pull failed"
    /\ \E resp \in PullResponses(m) :
           /\ resp.ok /\ DecodeErr(m, resp) = ""
           /\ ReceiveValidate(chain[m.To], m, resp) # ""

\* C14: when validation of the pulled record fails in a PUT, MOD, DEL or
\* LINK receive, the handler returns a nil error.
C14_Step == \A m \in net : HandledInvalid(m) => last'.err = ""

C14_ValidationFailureNotReturned == [][C14_Step]_vars

\* C15: when the validation pull of a receive handler fails or brings back
\* something that is no ValidateResponse, the receiver's store and link
\* index are unchanged.
C15_Step ==
    \A m \in net : Receive(m, NoResponse) => store' = store /\ links' = links

C15_FailedPullNoChange == [][C15_Step]_vars

\* the pull of a PUT receive has failed and the hash has no record
C15_PullFailed ==
    /\ last.op = "Receive" /\ last.msg.Type = PUT_REQUEST
    /\ last.err = "validation pull failed"
    /\ store[last.peer][last.msg.H].Status = Absent

\* C16: when validation of the pulled new entry fails in a MOD receive whose
\* target exists, the receiver records the new item Rejected in its store
\* and leaves the old record's status as it is.
C16_Step ==
    \A m \in net :
        (m.Type = MOD_REQUEST /\ HandledInvalid(m))
            => /\ store'[m.To][m.N].Status = StatusRejected
               /\ store'[m.To][m.H].Status = store[m.To][m.H].Status

C16_InvalidModRejected == [][C16_Step]_vars

\* the step handles m, and the pull brings back a record that the handling
\* peer's ValidateAction accepts
HandledValid(m) ==
    /\ Handled(m)
    /\ last'.err # "validation pull failed"
    /\ \E resp \in PullResponses(m) :
           /\ resp.ok /\ DecodeErr(m, resp) = ""
           /\ ReceiveValidate(chain[m.To], m, resp) = ""

\* C17: a DEL receive for a record whose status is Modified, with a valid
\* deletion record pulled from the source, makes the record Deleted.
C17_Step ==
    \A m \in net :
        (m.Type = DEL_REQUEST /\ HandledValid(m) /\ store[m.To][m.H].Status = StatusModified)
            => store'[m.To][m.H].Status = StatusDeleted

PreconditionKey(m) == IF m.Type = LINK_REQUEST THEN m.Base ELSE m.H

Panics ==
    { "panic: RETRY-MOD NOT IMPLEMENTED", "panic: RETRY-DELETE NOT IMPLEMENTED",
      "panic: RETRY-LINK NOT IMPLEMENTED" }

\* C18: when the record a MOD, DEL or LINK receive needs (the target hash,
\* the base) is missing from the receiver's store, the handler panics
\* instead of returning, and the store and the link index are unchanged.
C18_Step ==
    \A m \in net :
        (/\ m.Type \in {MOD_REQUEST, DEL_REQUEST, LINK_REQUEST}
         /\ Handled(m)
         /\ store[m.To][PreconditionKey(m)].Status = Absent)
            => /\ last'.err \in Panics
               /\ store' = store /\ links' = links

C18_MissingPreconditionPanics == [][C18_Step]_vars

\* what the link index becomes when the links of ls whose Base is base are
\* applied in order: for each (Base, Link, Tag) the last word counts
ExpectedLinks(lk, base, ls) ==
    [k \in LinkKeys |->
        LET on == {i \in 1..Len(ls) :
                      ls[i].Base = base /\ <<ls[i].Base, ls[i].Link, ls[i].Tag>> = k}
            top == CHOOSE i \in on : \A j \in on : j <= i
        IN  IF on = {} THEN lk[k]
            ELSE IF ls[top].LinkAction = DelAction
                 THEN (IF lk[k] = Absent THEN Absent ELSE StatusDeleted)
                 ELSE StatusLive]

\* C19: a LINK receive for base b whose pulled links entry passes validation
\* applies exactly the entry's links whose Base is b (putLink for add,
\* delLink for del) and changes nothing for links with another Base; when
\* validation fails no link is applied.
C19_Step ==
    \A m \in net :
        (m.Type = LINK_REQUEST /\ Handled(m))
            => LET p == m.To
                   a == last'.a
               IN  /\ store' = store
                   /\ \A q \in Peers \ {p} : links'[q] = links[q]
                   /\ a # NoAction
                          => /\ ValidateAction(chain[p], a, a.entryType, PkgOk) = ""
                             /\ links'[p] = ExpectedLinks(links[p], m.Base, a.entry.Links)
                   /\ a = NoAction => links'[p] = links[p]
                   /\ (m.From = Agent /\ HandledValid(m) /\ Precondition(store[p], m) = "")
                          => a # NoAction

C19_OnlyLinksOfBase == [][C19_Step]_vars

\* the last LINK receive applied the links of base 1 of an entry that also
\* holds a link of base 2, which is not in the index
C19_OtherBaseIgnored ==
    /\ LinkApplied /\ last.msg.Base = 1 /\ last.a.entry = Universe[7]
    /\ links[last.peer][<<1, 2, "t">>] = StatusLive
    /\ links[last.peer][<<2, 1, "t">>] = Absent

\* the case of a failed validation: the last LINK receive refused the
\* pulled entry and a link of it is not in the index
C19_InvalidDropped ==
    /\ last.op = "Receive" /\ last.msg.Type = LINK_REQUEST
    /\ last.a = NoAction /\ last.response = RespQueued
    /\ last.err \notin {"", "validation pull failed"}
    /\ links[last.peer][<<1, 2, "t">>] = Absent

\* the step is the handling of a GET request for hash h on peer p
GetHandled(p, h) ==
    \E req \in GetReqs : req.H = h /\ GetReceive(p, req)

\* C20: a GET receive returns a response with FollowHash set if and only if
\* the requested record's status is Modified, and then FollowHash is the
\* hash that replaced the record.
C20_Step ==
    \A p \in Peers, h \in {1, 2} :
        GetHandled(p, h) =>
            /\ (last'.response.FollowHash # NullHash) <=> (store[p][h].Status = StatusModified)
            /\ store[p][h].Status = StatusModified
                   => last'.response.FollowHash = store[p][h].FollowHash
C20_FollowHashIffModified == [][C20_Step]_vars

\* the half of C20 that the handler keeps: a FollowHash is only ever set for
\* a Modified record, and it is the hash that replaced it
C20_FollowOnlyStep ==
    \A p \in Peers, h \in {1, 2} :
        GetHandled(p, h) /\ last'.response.FollowHash # NullHash
            => store[p][h].Status = StatusModified
               /\ last'.response.FollowHash = store[p][h].FollowHash
C20_FollowHashOnlyIfModified == [][C20_FollowOnlyStep]_vars

\* a GET of a Modified record whose mask asks for Modified records has been
\* answered with the entry and no FollowHash
C20_ModifiedServed ==
    /\ last.op = "Receive" /\ last.msg.Type = GET_REQUEST
    /\ store[last.peer][last.msg.H].Status = StatusModified
    /\ last.err = "" /\ last.response.FollowHash = NullHash

\* a GET of a Modified record under the default mask has been answered with
\* the hash that replaced it
C20_ModifiedFollowed ==
    /\ last.op = "Receive" /\ last.msg.Type = GET_REQUEST
    /\ store[last.peer][last.msg.H].Status = StatusModified
    /\ last.err = "hash modified" /\ last.response.FollowHash = 2

\* C21: no GET receive, whatever its GetMask and StatusMask, serves a record
\* of the DNA's type: the handler answers such a request with an error or
\* aborts, never with a response that carries or describes the record.
C21_Step ==
    \A req \in GetReqs :
        GetReceive(Agent, req) /\ store[Agent][req.H].Type = DNAEntryType
            => last'.err # ""
C21_DNANeverServed == [][C21_Step]_vars

\* a GET with the default GetMask for a Live record of the DNA's type has
\* made the handler abort
C21_DNAGetAborted ==
    /\ last.op = "Receive" /\ last.msg.Type = GET_REQUEST
    /\ store[last.peer][last.msg.H].Type = DNAEntryType
    /\ last.err = "panic: nobody should actually get the DNA!"

\* C22: after a successful commit of an entry of type t with content c, a
\* get of its hash with Local = true on the same node returns the entry with
\* content c and the entry type t, for every GetMask, the default included.
C22_Step ==
    \A h \in {1, 2}, mask \in SUBSET {"Entry", "EntryType"} :
        GetLocal(Agent, h, mask) /\ HasEntry(chain[Agent], h)
            => /\ last'.err = ""
               /\ last'.response.Entry = Universe[h]
               /\ last'.response.EntryType = GetEntryHeader(chain[Agent], h).Type
C22_LocalGetReturnsCommitted == [][C22_Step]_vars

\* a local get that asks for the entry and its type has returned both for a
\* committed entry
C22_BothBitsReturned ==
    /\ last.op = "Do" /\ last.a.name = "get"
    /\ last.msg.GetMask = {"Entry", "EntryType"}
    /\ last.err = ""
    /\ last.response.Entry = Universe[last.msg.H]
    /\ last.response.EntryType = "post"

\* C23: for every argument list args and every count n, checkArgCount(args, n)
\* returns no error if and only if the number of arguments that are not
\* optional is at most n and n is at most the length of args; otherwise it
\* returns ErrWrongNargs.
C23_ArgCountIff ==
    last.op = "checkArgCount" =>
        LET args == last.msg.args
            n == last.msg.l
            required == Cardinality({i \in 1..Len(args) : ~args[i].Optional})
        IN  /\ (last.err = "") <=> (required <= n /\ n <= Len(args))
            /\ last.err # "" => last.err = ErrWrongNargs

\* a call that leaves an optional argument out has passed the check
C23_OptionalOmitted ==
    /\ last.op = "checkArgCount" /\ last.err = ""
    /\ last.msg.l < Len(last.msg.args)
    /\ \E i \in 1..Len(last.msg.args) : ~last.msg.args[i].Optional

\* the address the bootstrap response r stands for: host and port of
\* ReturnAddr when it reads host:port, otherwise the host of Remote and the
\* last segment of NodeAddr
BSExpected(r) ==
    LET ra == r.Req.ReturnAddr
        na == r.Req.NodeAddr
    IN  IF Len(ra) = 3 /\ ra[2] = ":"
        THEN [host |-> <<ra[1]>>, port |-> <<ra[3]>>]
        ELSE [host |-> <<r.Remote[1]>>,
              port |-> IF na[Len(na)] = "/" THEN <<>> ELSE <<na[Len(na)]>>]

\* r is to be offered: its NodeID decodes, its address is valid, and it is
\* not the node itself
BSEligible(r) ==
    /\ r.Req.NodeID # "!"
    /\ BSExpected(r).port # <<>>
    /\ r.Req.NodeID # boot.myNodeID

\* C24: checkBSResponses hands to AddPeer exactly the responses whose NodeID
\* decodes, whose synthesized address is valid and whose NodeID is not the
\* node's own, each with the address /ip4/host/tcp/port taken from
\* ReturnAddr when it reads host:port and otherwise from Remote's host and
\* the last segment of NodeAddr; the node itself is never offered.
C24_OfferedExactly ==
    boot.pc # "idle" =>
        /\ \A g \in boot.offered :
               LET r == boot.nodes[g.n]
               IN  BSEligible(r) /\ g.ID = r.Req.NodeID /\ g.Addr = BSExpected(r)
        /\ boot.pc = "return" /\ boot.running = {}
               => \A k \in 1..Len(boot.nodes) :
                      BSEligible(boot.nodes[k]) => \E g \in boot.offered : g.n = k

\* the half of C24 that no interleaving breaks: the node itself is never
\* offered, and a response that decodes is offered under its own id
C24_NeverSelf ==
    boot.pc # "idle" =>
        \A g \in boot.offered :
            /\ boot.nodes[g.n].Req.NodeID # boot.myNodeID
            /\ g.ID # "" => g.ID = boot.nodes[g.n].Req.NodeID

\* two peers have been offered, the first from its ReturnAddr and the second
\* from Remote and NodeAddr
C24_BothOffered ==
    /\ boot.pc = "return" /\ boot.running = {}
    /\ \E g \in boot.offered : g.n = 1 /\ g.Addr = [host |-> <<"r">>, port |-> <<"7">>]
    /\ \E g \in boot.offered : g.n = 2 /\ g.Addr = [host |-> <<"m">>, port |-> <<"6">>]

\* C25: ValidateAction for an application-defined entry type runs its steps
\* in the order entry-definition lookup, validation-package assembly, system
\* validation, application validation, and the first failing step ends the
\* run: the application's validation is not invoked when the entry type is
\* unknown, when the package cannot be assembled, or when system validation
\* fails.
C25_Step ==
    \A a \in {last'.a}, t \in {"post", "rating", "nope"}, pkg \in {PkgNone, PkgOk, PkgBroken} :
        CallValidateAction(a, t, pkg) =>
            LET steps == last'.response
                order == <<"GetEntryDef", "MakeValidationPackage", "SysValidation",
                           "ValidateAction">>
                first == IF t \notin DOMAIN EntryDefs THEN 1
                         ELSE IF pkg = PkgBroken THEN 2
                         ELSE IF SysValidation(chain[Agent], a, EntryDefs[t]) # "" THEN 3
                         ELSE 4
            IN  /\ steps = SubSeq(order, 1, first)
                /\ first < 4 => last'.err # ""
C25_StepsInOrder == [][C25_Step]_vars

\* a call has ended at its system validation, which failed, for a known
\* entry type and a package that could be assembled
C25_EndedAtSysValidation ==
    /\ last.op = "ValidateAction"
    /\ last.response = <<"GetEntryDef", "MakeValidationPackage", "SysValidation">>
    /\ last.err = ErrHashNotFound

\* calls have ended at the lookup of the entry type and at the assembly of
\* the package
C25_EndedAtPackage ==
    /\ last.op = "ValidateAction"
    /\ last.response = <<"GetEntryDef", "MakeValidationPackage">>
    /\ last.err # ""

\* C26: the system validation of a mod fails, and the mod appends nothing to
\* the chain, when the entry type's DataFormat is Links, when the replaced
\* hash has no header in the chain, and when the replaced header's type is
\* not the mod's entry type.
C26_Step ==
    (last'.op = "Do" /\ last'.a.name = "mod" /\ GetEntryDefOk(last'.a.entryType)) =>
        LET a == last'.a
            ch == chain[Agent]
        IN  /\ EntryDefs[a.entryType].DataFormat = DataFormatLinks
                   => last'.err = "Can't mod Links entry" /\ chain' = chain
            /\ ~HasEntry(ch, a.replaces)
                   => last'.err # "" /\ chain' = chain
            /\ HasEntry(ch, a.replaces) /\ GetEntryHeader(ch, a.replaces).Type # a.entryType
                   => last'.err # "" /\ chain' = chain
            /\ (/\ EntryDefs[a.entryType].DataFormat # DataFormatLinks
                /\ HasEntry(ch, a.replaces)
                /\ GetEntryHeader(ch, a.replaces).Type # a.entryType)
                   => last'.err = ErrEntryTypeMismatch
C26_ModSysValidationFails == [][C26_Step]_vars

\* a mod of a committed post under another entry type has been refused for
\* the mismatch
C26_MismatchRefused ==
    /\ last.op = "Do" /\ last.a.name = "mod" /\ last.a.entryType = "note"
    /\ HasEntry(chain[Agent], last.a.replaces)
    /\ GetEntryHeader(chain[Agent], last.a.replaces).Type = "post"
    /\ last.err = ErrEntryTypeMismatch

\* a mod of a hash that is not in the chain has been refused
C26_MissingRefused ==
    /\ last.op = "Do" /\ last.a.name = "mod" /\ last.a.entryType = "post"
    /\ ~HasEntry(chain[Agent], last.a.replaces)
    /\ last.err = ErrHashNotFound

\* C27: a DEL receive for the message {H: x, By: y} changes the status of no
\* record other than x, whatever hash the deletion record pulled for y
\* names.
C27_Step ==
    \A m \in net :
        (m.Type = DEL_REQUEST /\ Handled(m)) =>
            \A h \in Hashes \ {m.H} :
                store'[m.To][h].Status = store[m.To][h].Status
C27_DelTouchesOnlyH == [][C27_Step]_vars

\* the half of C27 that holds for the agent's own requests: the DEL_REQUEST
\* a del sends names the hash its deletion record names, and its handling
\* touches no other record
C27_OwnStep ==
    \A m \in net :
        (m.Type = DEL_REQUEST /\ m.From = Agent /\ Handled(m)) =>
            \A h \in Hashes \ {m.H} :
                store'[m.To][h].Status = store[m.To][h].Status
C27_OwnDelTouchesOnlyH == [][C27_OwnStep]_vars
====
